---- MODULE Spec2Model ----
(***************************************************************************)
(* Incremental soil-moisture pipeline of ymrabti/soil-moisture-fetcher:    *)
(* the SMAP driver (src/src/main.py), the Sentinel-1 driver                *)
(* (src/src/main_sentinel.py) and the watermark store (src/src/db.py).     *)
(*                                                                         *)
(* Time is measured in ticks; TicksPerDay ticks make one UTC calendar day. *)
(* A timestamp is a tick count, a date is a day number.                    *)
(***************************************************************************)
EXTENDS Integers, Sequences, FiniteSets

\* ---------------------------------------------------------------- bounds
\* Days of the lookback window, images the window can hold, runs started.
MaxDay == 2
MaxImages == 3
MaxRuns == 2

\* Length of one UTC day in ticks (86 400 000 ms in the program): the unit
\* of the conversion from system:time_start to a calendar date.
TicksPerDay == 2

\* Python's None (an absent watermark, an absent zonal mean).
None == -1000

\* Days of the lookback window (timedelta(days=5) and timedelta(days=7) in the
\* drivers) and of the sleep of the Sentinel loop (INTERVAL_DAYS = 7, equal
\* to the Sentinel lookback).
LookbackDays == MaxDay

IntervalDays == MaxDay

Days == 1..MaxDay
Timestamps == TicksPerDay..((MaxDay + 1) * TicksPerDay - 1)

\* Zonal means the provider can return: sm_surface in hundredths (SMAP),
\* VV in dB (Sentinel-1).
SmapValues == {3, 25}
SentinelValues == {-23, -10}

\* ------------------------------------------------------------- helpers
Range(s) == {s[i] : i \in 1..Len(s)}

SetMax(S) == CHOOSE m \in S : \A x \in S : x <= m

\* datetime.fromtimestamp(ts / 1000, tz=timezone.utc).date(), and
\* img.date().format("YYYY-MM-dd"): the UTC calendar day of a timestamp.
DateOf(ts) == ts \div TicksPerDay

\* The sequence s is in strictly ascending order.
Ascending(s) == \A i, j \in 1..Len(s) : i < j => s[i] < s[j]

\* All sequences of distinct timestamps of length <= MaxImages: what the
\* provider's collection can hold in the lookback window, in listing order.
RECURSIVE DistinctSeqs(_)
DistinctSeqs(n) ==
    IF n = 0 THEN {<<>>}
    ELSE LET shorter == DistinctSeqs(n - 1)
         IN shorter \cup
            UNION {{Append(s, t) : t \in Timestamps \ Range(s)} :
                   s \in {q \in shorter : Len(q) = n - 1}}

\* ---------------------------------------------------------- classifier
\* utils.get_description: SMAP profile (thresholds 0.05, 0.1, 0.2, 0.3,
\* here in hundredths). Labels are spelled with an ASCII hyphen.
get_description(vv_db) ==
    IF vv_db = None THEN "Unknown"
    ELSE IF vv_db < 5 THEN "1 - Very Dry"
    ELSE IF vv_db < 10 THEN "2 - Dry"
    ELSE IF vv_db < 20 THEN "3 - Slightly Moist"
    ELSE IF vv_db < 30 THEN "4 - Moderately Moist"
    ELSE "5 - Moist: Recently irrigated or after light rain"

\* Mutant of get_sentinel_description: the last bin excludes its upper bound.
get_sentinel_description_open(vv_db) ==
    IF vv_db = None THEN "TypeError"
    ELSE IF -25 <= vv_db /\ vv_db < -22 THEN "1 - Extremely Dry: Hard, cracked soil; drought or bare land"
    ELSE IF -22 <= vv_db /\ vv_db < -20 THEN "2 - Very Dry: Dry fields; low water retention"
    ELSE IF -20 <= vv_db /\ vv_db < -18 THEN "3 - Dry: Lightly moist topsoil; early stress"
    ELSE IF -18 <= vv_db /\ vv_db < -16 THEN "4 - Slightly Moist: Normal soil conditions; vegetated"
    ELSE IF -16 <= vv_db /\ vv_db < -14 THEN "5 - Moist: Recently irrigated or after light rain"
    ELSE IF -14 <= vv_db /\ vv_db < -12 THEN "6 - Very Moist: Wet surface; saturated or ponding starts"
    ELSE IF -12 <= vv_db /\ vv_db < -5 THEN "7 - Saturated / Waterlogged: Standing water, flooded fields, or dense canopy"
    ELSE "Unknown moisture class"

\* utils.get_sentinel_description: Sentinel profile. It has no None branch:
\* the chained comparison -25 <= None raises TypeError.
get_sentinel_description(vv_db) ==
    IF vv_db = None THEN "TypeError"
    ELSE IF -25 <= vv_db /\ vv_db < -22 THEN "1 - Extremely Dry: Hard, cracked soil; drought or bare land"
    ELSE IF -22 <= vv_db /\ vv_db < -20 THEN "2 - Very Dry: Dry fields; low water retention"
    ELSE IF -20 <= vv_db /\ vv_db < -18 THEN "3 - Dry: Lightly moist topsoil; early stress"
    ELSE IF -18 <= vv_db /\ vv_db < -16 THEN "4 - Slightly Moist: Normal soil conditions; vegetated"
    ELSE IF -16 <= vv_db /\ vv_db < -14 THEN "5 - Moist: Recently irrigated or after light rain"
    ELSE IF -14 <= vv_db /\ vv_db < -12 THEN "6 - Very Moist: Wet surface; saturated or ponding starts"
    ELSE IF -12 <= vv_db /\ vv_db <= -5 THEN "7 - Saturated / Waterlogged: Standing water, flooded fields, or dense canopy"
    ELSE "Unknown moisture class"

\* The classifier of a profile.
Describe(profile, vv_db) ==
    IF profile = "smap" THEN get_description(vv_db)
    ELSE get_sentinel_description(vv_db)

\* Arguments of the classifier calls explored: whole dB values around the
\* documented range [-25, -5] for the Sentinel profile; for the SMAP profile
\* the same dB values and volumetric fractions around its thresholds, in
\* hundredths; and None.
SentinelInputs == (-27..-3) \cup {None}

SmapInputs ==
    {100 * v : v \in -27..-3} \cup {0, 4, 5, 9, 10, 19, 20, 29, 30, 35} \cup {None}

\* --------------------------------------------------------------- store
\* One row of vv_data (id and created_at are never read by the program).
Row(date, vv, description) ==
    [date |-> date, vv_dB |-> vv, description |-> description]

\* Mutant of Upsert: a plain INSERT with no conflict clause and no unique key.
UpsertInsertOnly(rows, entry) ==
    Append(rows, Row(entry.date, entry.vv_dB, entry.description))

\* Mutant of Upsert: ON CONFLICT (date) DO NOTHING keeps the existing row.
UpsertDoNothing(rows, entry) ==
    IF \E i \in 1..Len(rows) : rows[i].date = entry.date
    THEN rows
    ELSE Append(rows, Row(entry.date, entry.vv_dB, entry.description))

\* Mutant of Upsert: DO UPDATE SET vv_dB only; the label of the row is kept.
UpsertValueOnly(rows, entry) ==
    IF \E i \in 1..Len(rows) : rows[i].date = entry.date
    THEN [i \in 1..Len(rows) |->
            IF rows[i].date = entry.date
            THEN Row(rows[i].date, entry.vv_dB, rows[i].description)
            ELSE rows[i]]
    ELSE Append(rows, Row(entry.date, entry.vv_dB, entry.description))

\* INSERT ... ON CONFLICT (date) DO UPDATE SET vv_dB, description.
Upsert(rows, entry) ==
    IF \E i \in 1..Len(rows) : rows[i].date = entry.date
    THEN [i \in 1..Len(rows) |->
            IF rows[i].date = entry.date
            THEN Row(rows[i].date, entry.vv_dB, entry.description)
            ELSE rows[i]]
    ELSE Append(rows, Row(entry.date, entry.vv_dB, entry.description))

\* The for loop of set_last_processed: one upsert per entry, in order.
RECURSIVE UpsertAll(_, _)
UpsertAll(rows, moisture_data) ==
    IF moisture_data = <<>> THEN rows
    ELSE UpsertAll(Upsert(rows, Head(moisture_data)), Tail(moisture_data))

\* Mutant of set_last_processed: the connection autocommits, so the rows
\* written before the failing statement stay.
set_last_processed_autocommit(rows, moisture_data, failAt) ==
    IF failAt = 0 THEN UpsertAll(rows, moisture_data)
    ELSE UpsertAll(rows, SubSeq(moisture_data, 1, failAt - 1))

\* Mutant of set_last_processed: the failing entry is skipped and the rest of
\* the batch is committed before the error is reported.
set_last_processed_skip_failed(rows, moisture_data, failAt) ==
    IF failAt = 0 THEN UpsertAll(rows, moisture_data)
    ELSE UpsertAll(rows, [k \in 1..(Len(moisture_data) - 1) |->
                            IF k < failAt THEN moisture_data[k]
                            ELSE moisture_data[k + 1]])

\* set_last_processed(moisture_data): failAt = 0 when every statement
\* succeeds and conn.commit() runs; failAt = k when the k-th execute raises,
\* and `with conn` rolls the transaction back.
set_last_processed(rows, moisture_data, failAt) ==
    IF failAt = 0 THEN UpsertAll(rows, moisture_data) ELSE rows

\* Mutant of get_last_processed_date: SELECT MIN(date).
get_first_processed_date(rows) ==
    IF rows = <<>> THEN None
    ELSE -SetMax({-rows[i].date : i \in 1..Len(rows)})

\* get_last_processed_date(): SELECT MAX(date) FROM vv_data, None when empty.
get_last_processed_date(rows) ==
    IF rows = <<>> THEN None
    ELSE SetMax({rows[i].date : i \in 1..Len(rows)})

\* ------------------------------------------------------------ provider
\* Mutant of FilterDate: the range is not bounded from below.
FilterDateUpTo(collection, start, end) ==
    SelectSeq(collection, LAMBDA t : t < end)

\* ImageCollection.filterDate(start, end): start inclusive, end exclusive,
\* on system:time_start; the collection keeps its listing order.
FilterDate(collection, start, end) ==
    SelectSeq(collection, LAMBDA t : start <= t /\ t < end)

\* ImageCollection.filterDate(start) with no end: a 1-millisecond range
\* starting at start, which holds the images stamped exactly start.
FilterDateStart(collection, start) ==
    SelectSeq(collection, LAMBDA t : start <= t /\ t <= start)

\* ---------------------------------------------------------------- main
\* Mutant of NewDates: >= in place of >, so a tie with the watermark is new.
NewDatesInclusive(image_dates, lastDate) ==
    IF lastDate # None
    THEN SelectSeq(image_dates, LAMBDA dt : DateOf(dt) >= lastDate)
    ELSE image_dates

\* new_dates of main(): the list comprehension over image_dates.
NewDates(image_dates, lastDate) ==
    IF lastDate # None
    THEN SelectSeq(image_dates, LAMBDA dt : DateOf(dt) > lastDate)
    ELSE image_dates

\* Mutant of MainBranch: the emptiness test of new_dates is dropped.
MainBranchNoTest(v, nd) ==
    IF v = "smap" THEN "run_export" ELSE "export_table"

\* `if new_dates:` of main(): where control goes after the delta is known.
MainBranch(v, nd) ==
    IF nd # <<>>
    THEN (IF v = "smap" THEN "run_export" ELSE "export_table")
    ELSE "returned"

\* Mutant of SmapRecord: the date is taken in a time zone ahead of UTC.
SmapRecordLocalDate(ts, vv) == Row(DateOf(ts) + 1, vv, get_description(vv))

\* One record appended to exported_data by extract_data (SMAP).
SmapRecord(ts, vv) == Row(DateOf(ts), vv, get_description(vv))

\* One record built by export_table (Sentinel) from a feature.
SentinelRecord(ts, vv) == Row(DateOf(ts), vv, get_sentinel_description(vv))

\* What one extract_data call can meet: a zonal mean (possibly None), or an
\* exception raised by task.start() ("export") or by reduceRegion().getInfo()
\* ("reduce"); ee.EEException is a provider error, OSError a network error.
SmapOutcomes ==
    {[at |-> "none", exc |-> "none", vv |-> v] : v \in SmapValues \cup {None}}
    \cup {[at |-> a, exc |-> e, vv |-> None] :
            a \in {"export", "reduce"}, e \in {"EEException", "OSError"}}

\* What the server-side map(extract_vv_mean) can meet for one image.
SentinelOutcomes ==
    {[at |-> "none", exc |-> "none", vv |-> v] : v \in SentinelValues \cup {None}}
    \cup {[at |-> "reduce", exc |-> e, vv |-> None] : e \in {"EEException", "OSError"}}

\* An observable effect of the program, in the order it happened.
Ev(op, ts, batch, ok) == [op |-> op, ts |-> ts, batch |-> batch, ok |-> ok]

Attempt(ts, o) == [ts |-> ts, at |-> o.at, exc |-> o.exc, vv |-> o.vv]

VARIABLES
    variant,        \* "smap" (main.py) or "sentinel" (main_sentinel.py)
    catalog,        \* timestamps of the provider's images, in listing order
    store,          \* rows of vv_data, in insertion order
    pc,             \* position of the process
    dates,          \* image_dates of main()
    last,           \* last of main(): the watermark read by this run
    new_dates,      \* new_dates of main()
    images,         \* the images of the restricted re-query
    idx,            \* i of run_export's loop: images extracted so far
    exported_data,  \* the module-level list exported_data
    effects,        \* effects of the current run, in order (exports, CSV,
                    \* webhook, email, commit)
    attempts,       \* the extractions of the current run and how each ended
    runs,           \* number of runs started
    today,          \* the current day (wall clock)
    window,         \* <<START_DATE, END_DATE>>, computed when the module loads
    exports,        \* watched images whose raster export was started, over
                    \* all runs, in order
    outcome,        \* how the previous run ended ("none" before the first)
    watched,        \* the images whose raster exports are recorded in exports
    task,           \* state of the export task being polled ("none" when no
                    \* task is polled)
    value,          \* the argument of a classifier call
    label,          \* what that call returned ("" before the call)
    procs           \* the invocations that run side by side on one store

vars == <<variant, catalog, store, pc, dates, last, new_dates, images, idx,
          exported_data, effects, attempts, runs, today, window, exports,
          outcome, watched,
                   task, value, label, procs>>

\* START_DATE and END_DATE as computed on day d: the lookback window.
Window(d) == <<d - LookbackDays, d>>

\* The collection `smap`: the images of the window; a query, evaluated by the
\* provider each time getInfo() is called on it.
Smap(collection, w) ==
    FilterDate(collection, w[1] * TicksPerDay, w[2] * TicksPerDay)

Start ==
    /\ variant \in {"smap", "sentinel"}
    /\ catalog \in DistinctSeqs(MaxImages)
    /\ store = <<>>
    /\ pc = "start"
    /\ dates = <<>>
    /\ last = None
    /\ new_dates = <<>>
    /\ images = <<>>
    /\ idx = 0
    /\ exported_data = <<>>
    /\ effects = <<>>
    /\ attempts = <<>>
    /\ runs = 0
    /\ today = MaxDay + 1
    /\ window = Window(today)
    /\ exports = <<>>
    /\ outcome = "none"
    /\ task = "none"
    /\ value = None
    /\ label = ""
    /\ procs = <<>>

\* The state of a process that has not run yet, on an empty store.
Fresh ==
    /\ store = <<>>
    /\ dates = <<>>
    /\ last = None
    /\ new_dates = <<>>
    /\ images = <<>>
    /\ idx = 0
    /\ exported_data = <<>>
    /\ effects = <<>>
    /\ attempts = <<>>
    /\ runs = 0
    /\ today = MaxDay + 1
    /\ window = Window(today)
    /\ exports = <<>>
    /\ outcome = "none"
    /\ watched = {}

\* Nothing is recorded across runs.
Init == Start /\ watched = {}

\* The raster exports of every image are recorded across runs.
InitAudit == Start /\ watched = Timestamps

\* main(): list the timestamps, read the watermark, compute new_dates, branch.
Main ==
    /\ pc = "start"
    /\ runs < MaxRuns
    /\ LET image_dates == Smap(catalog, window)
           lastDate == get_last_processed_date(store)
           nd == NewDates(image_dates, lastDate)
       IN /\ dates' = image_dates
          /\ last' = lastDate
          /\ new_dates' = nd
          /\ pc' = MainBranch(variant, nd)
    /\ runs' = runs + 1
    /\ effects' = <<>>
    /\ attempts' = <<>>
    /\ images' = <<>>
    /\ idx' = 0
    /\ UNCHANGED <<variant, catalog, store, exported_data, today, window,
                   exports, outcome, watched,
                   task, value, label, procs>>

\* run_export() up to its loop: size().getInfo() evaluates the re-query
\* filterDate(new_dates[0], new_dates[-1]). The provider may reject a range
\* that is empty or inverted (raises) instead of answering with no image;
\* that EEException is raised outside the try and ends the process.
RunExport ==
    /\ pc = "run_export"
    /\ LET start == new_dates[1]
           end == new_dates[Len(new_dates)]
       IN \E raises \in BOOLEAN :
            IF raises
            THEN /\ start >= end
                 /\ pc' = "crashed"
                 /\ UNCHANGED images
            ELSE /\ images' = FilterDate(catalog, start, end)
                 /\ pc' = IF images' = <<>> THEN "notify" ELSE "extract"
    /\ idx' = 0
    /\ UNCHANGED <<variant, catalog, store, dates, last, new_dates,
                   exported_data, effects, attempts, runs, today, window,
                   exports, outcome, watched,
                   task, value, label, procs>>

\* One iteration of run_export's loop: extract_data(image) inside
\* try/except ee.EEException.
ExtractData ==
    /\ pc = "extract"
    /\ idx < Len(images)
    /\ \E o \in SmapOutcomes :
         LET ts == images[idx + 1]
         IN /\ attempts' = Append(attempts, Attempt(ts, o))
            /\ effects' = IF o.at = "export" THEN effects
                          ELSE Append(effects, Ev("export", ts, <<>>, TRUE))
            /\ exports' = IF o.at = "export" \/ ts \notin watched THEN exports
                          ELSE Append(exports, ts)
            /\ exported_data' = IF o.at = "none"
                                THEN Append(exported_data, SmapRecord(ts, o.vv))
                                ELSE exported_data
            /\ pc' = IF o.exc = "OSError" THEN "crashed"
                     ELSE IF idx + 1 = Len(images) THEN "notify"
                     ELSE "extract"
    /\ idx' = idx + 1
    /\ UNCHANGED <<variant, catalog, store, dates, last, new_dates, images,
                   runs, today, window, outcome, watched,
                   task, value, label, procs>>

\* How requests.post can end inside send_webhook_notification: a response
\* (whatever its status code: raise_for_status is not called) or a
\* requests.RequestException (timeout, connection error), which is caught.
WebhookOutcomes == {"ok", "RequestException"}

\* How the SMTP session can end inside send_email_notification: sent; an
\* smtplib.SMTPException (protocol error), which is caught; or an OSError that
\* is not an SMTPException (connection refused, unresolvable host, timeout
\* while connecting), which the except clause does not name.
EmailOutcomes == {"ok", "SMTPException", "OSError"}

\* Does send_email_notification end with an exception?
EmailPropagates(em) == em = "OSError"

\* The downstream steps shared by both drivers: CSV, webhook, email, commit.
\* The commit is not reached when the email call raises.
Downstream(batch, wh, em, failAt) ==
    <<Ev("csv", 0, batch, TRUE),
      Ev("webhook", 0, batch, wh = "ok"),
      Ev("email", 0, <<>>, em = "ok")>>
    \o (IF EmailPropagates(em) THEN <<>>
        ELSE <<Ev("set_last_processed", 0, batch, failAt = 0)>>)

\* Mutant of DownstreamStore: the commit is made before the email is sent.
DownstreamStoreBeforeEmail(rows, batch, em, failAt) ==
    set_last_processed(rows, batch, failAt)

\* The store after the downstream steps.
DownstreamStore(rows, batch, em, failAt) ==
    IF EmailPropagates(em) THEN rows
    ELSE set_last_processed(rows, batch, failAt)

\* bulk_notify_and_hook(): nothing when exported_data is empty; a store
\* error (psycopg2.Error) or an OSError of the email call propagates and ends
\* the process.
BulkNotifyAndHook ==
    /\ pc = "notify"
    /\ IF exported_data # <<>>
       THEN \E wh \in WebhookOutcomes, em \in EmailOutcomes,
                 failAt \in 0..Len(exported_data) :
              /\ EmailPropagates(em) => failAt = 0
              /\ effects' = effects \o Downstream(exported_data, wh, em, failAt)
              /\ store' = DownstreamStore(store, exported_data, em, failAt)
              /\ pc' = IF EmailPropagates(em) \/ failAt # 0 THEN "crashed"
                       ELSE "returned"
       ELSE /\ pc' = "returned"
            /\ UNCHANGED <<effects, store>>
    /\ UNCHANGED <<variant, catalog, dates, last, new_dates, images, idx,
                   exported_data, attempts, runs, today, window, exports,
                   outcome, watched,
                   task, value, label, procs>>

\* The records export_table builds: features with a null vv are filtered out.
RECURSIVE SentinelResults(_, _)
SentinelResults(imgs, outs) ==
    IF imgs = <<>> THEN <<>>
    ELSE LET rest == SentinelResults(Tail(imgs), Tail(outs))
         IN IF Head(outs).vv = None THEN rest
            ELSE <<SentinelRecord(Head(imgs), Head(outs).vv)>> \o rest

\* export_table(): one server-side evaluation of the re-query
\* filterDate(new_dates[0]); then CSV, webhook, email and commit, whatever the
\* number of results. An exception of getInfo() reaches the loop of __main__,
\* which catches EEException and OSError (so an OSError of the email call is
\* caught there too); a store error is not caught there.
ExportTable ==
    /\ pc = "export_table"
    /\ LET imgs == FilterDateStart(catalog, new_dates[1])
       IN \E outs \in [1..Len(imgs) -> SentinelOutcomes] :
            /\ images' = imgs
            /\ attempts' = [i \in 1..Len(imgs) |-> Attempt(imgs[i], outs[i])]
            /\ idx' = Len(imgs)
            /\ IF \E i \in 1..Len(imgs) : outs[i].exc # "none"
               THEN /\ pc' = "caught"
                    /\ UNCHANGED <<effects, store>>
               ELSE LET dataset == SentinelResults(imgs, outs)
                    IN \E wh \in WebhookOutcomes, em \in EmailOutcomes,
                          failAt \in 0..Len(dataset) :
                         /\ EmailPropagates(em) => failAt = 0
                         /\ effects' = effects \o Downstream(dataset, wh, em, failAt)
                         /\ store' = DownstreamStore(store, dataset, em, failAt)
                         /\ pc' = IF EmailPropagates(em) THEN "caught"
                                  ELSE IF failAt # 0 THEN "crashed"
                                  ELSE "returned"
    /\ UNCHANGED <<variant, catalog, dates, last, new_dates, exported_data,
                   runs, today, window, exports, outcome, watched,
                   task, value, label, procs>>

\* The loop of __main__ in main_sentinel.py: log, sleep INTERVAL_DAYS, call
\* main() again. Module-level code does not run again.
Sleep ==
    /\ variant = "sentinel"
    /\ pc \in {"returned", "caught"}
    /\ runs < MaxRuns
    /\ pc' = "start"
    /\ today' = today + IntervalDays
    /\ outcome' = pc
    /\ UNCHANGED <<variant, catalog, store, dates, last, new_dates, images,
                   idx, exported_data, effects, attempts, runs, window,
                   exports, watched,
                   task, value, label, procs>>

\* A new process: main.py runs main() once per invocation, and either script
\* is started again after an uncaught exception. Module-level code runs
\* again, so exported_data is the empty list and the window is computed from
\* the day of the start.
StartProcess ==
    /\ \/ pc = "crashed"
       \/ variant = "smap" /\ pc = "returned"
    /\ runs < MaxRuns
    /\ pc' = "start"
    /\ exported_data' = <<>>
    /\ window' = Window(today)
    /\ outcome' = pc
    /\ UNCHANGED <<variant, catalog, store, dates, last, new_dates, images,
                   idx, effects, attempts, runs, today, exports, watched,
                   task, value, label, procs>>

\* The provider publishes one more image while no run is in progress. Its
\* acquisition day is at most the current day.
Publish ==
    /\ pc \in {"returned", "caught", "crashed"}
    /\ runs < MaxRuns
    /\ Len(catalog) < MaxImages
    /\ \E t \in ((today - LookbackDays) * TicksPerDay)
                  .. ((today + 1) * TicksPerDay - 1) :
         /\ t \notin Range(catalog)
         /\ catalog' = Append(catalog, t)
    /\ UNCHANGED <<variant, store, pc, dates, last, new_dates, images, idx,
                   exported_data, effects, attempts, runs, today, window,
                   exports, outcome, watched,
                   task, value, label, procs>>

Next ==
    \/ Main
    \/ RunExport
    \/ ExtractData
    \/ BulkNotifyAndHook
    \/ ExportTable
    \/ Sleep
    \/ StartProcess

Spec == Init /\ [][Next]_vars

\* The same program with a provider that keeps publishing, started on a
\* catalogue of at most one image.
InitPublishing == Init /\ Len(catalog) <= 1

NextPublishing ==
    \/ Next
    \/ Publish

SpecPublishing == InitPublishing /\ [][NextPublishing]_vars

\* ----------------------------------------------------------- classifier
\* One call of a classifier on one argument.
InitClassify ==
    /\ Fresh
    /\ variant \in {"smap", "sentinel"}
    /\ catalog = <<>>
    /\ pc = "classify"
    /\ task = "none"
    /\ value \in (IF variant = "smap" THEN SmapInputs ELSE SentinelInputs)
    /\ label = ""
    /\ procs = <<>>

Classify ==
    /\ pc = "classify"
    /\ label = ""
    /\ label' = Describe(variant, value)
    /\ pc' = "classified"
    /\ UNCHANGED <<variant, catalog, store, dates, last, new_dates, images,
                   idx, exported_data, effects, attempts, runs, today, window,
                   exports, outcome, watched, task, value, procs>>

NextClassify == Classify

SpecClassify == InitClassify /\ [][NextClassify]_vars

\* ------------------------------------------------ polling (Sentinel)
\* run_export, extract_data and bulk_notify_and_hook of main_sentinel.py:
\* the variant of the Sentinel driver that exports each image as a raster
\* and polls the export task. The functions are called once per iteration
\* of one process, each time with a date-restricted collection; the list
\* exported_data is the module-level one.

\* task.active(): the export task is still READY or RUNNING.
TaskActive(t) == t = "active"

\* How a call to the provider can end: normally, or with an exception.
CallOutcomes == {"none", "EEException", "OSError"}

\* A zonal mean of the polling variant, in dB.
PollingValues == {-10}

\* What reduceRegion(...).getInfo() can give for one image.
PollingOutcomes ==
    {[at |-> "none", exc |-> "none", vv |-> v] : v \in PollingValues \cup {None}}
    \cup {[at |-> "reduce", exc |-> e, vv |-> None] : e \in {"EEException", "OSError"}}

\* Where control goes after the extraction of image number idx + 1 ended
\* with exception exc ("none": normally): run_export catches ee.EEException
\* and goes on with the next image; an OSError leaves run_export and is
\* caught by the loop of __main__.
AfterImage(exc) ==
    IF exc = "OSError" THEN "caught"
    ELSE IF idx + 1 = Len(images) THEN "notify"
    ELSE "extract"

InitPolling ==
    /\ Fresh
    /\ variant = "sentinel"
    /\ catalog \in {c \in DistinctSeqs(MaxImages) : Ascending(c)}
    /\ pc = "idle"
    /\ task = "none"
    /\ value = None
    /\ label = ""
    /\ procs = <<>>

\* run_export(updated_smap, timestamps) up to its loop: size().getInfo()
\* evaluates the collection handed over, here the images of the catalogue
\* stamped in [start, end); an exception of that call leaves run_export.
SentinelRunExport ==
    /\ pc \in {"idle", "returned", "caught"}
    /\ runs < MaxRuns
    /\ runs' = runs + 1
    /\ outcome' = pc
    /\ effects' = <<>>
    /\ attempts' = <<>>
    /\ idx' = 0
    /\ \E start \in Timestamps, end \in Timestamps, exc \in CallOutcomes :
         /\ start <= end
         /\ IF exc = "none"
            THEN /\ images' = FilterDate(catalog, start, end + 1)
                 /\ pc' = IF images' = <<>> THEN "notify" ELSE "extract"
            ELSE /\ images' = <<>>
                 /\ pc' = "caught"
    /\ UNCHANGED <<variant, catalog, store, dates, last, new_dates,
                   exported_data, today, window, exports, watched,
                   task, value, label, procs>>

\* extract_data up to task.start(): the export task of the image is created
\* and started; img.date().getInfo() or task.start() may raise.
SentinelTaskStart ==
    /\ pc = "extract"
    /\ idx < Len(images)
    /\ \E exc \in CallOutcomes :
         LET ts == images[idx + 1]
         IN IF exc = "none"
            THEN /\ task' = "active"
                 /\ effects' = Append(effects, Ev("export", ts, <<>>, TRUE))
                 /\ pc' = "poll"
                 /\ UNCHANGED <<attempts, idx>>
            ELSE /\ attempts' = Append(attempts,
                        [ts |-> ts, at |-> "export", exc |-> exc, vv |-> None])
                 /\ idx' = idx + 1
                 /\ pc' = AfterImage(exc)
                 /\ UNCHANGED <<task, effects>>
    /\ UNCHANGED <<variant, catalog, store, dates, last, new_dates, images,
                   exported_data, runs, today, window, exports, outcome,
                   watched, value, label, procs>>

\* The provider finishes the export task (COMPLETED, FAILED or CANCELLED).
TaskEnds ==
    /\ task = "active"
    /\ task' = "inactive"
    /\ UNCHANGED <<variant, catalog, store, pc, dates, last, new_dates,
                   images, idx, exported_data, effects, attempts, runs,
                   today, window, exports, outcome, watched, value, label,
                   procs>>

\* `while task.active(): time.sleep(10)`: the evaluation of task.active()
\* that leaves the loop, or one that raises. An evaluation that finds the
\* task active sleeps and changes nothing.
SentinelTaskPoll ==
    /\ pc = "poll"
    /\ \E exc \in CallOutcomes :
         IF exc = "none"
         THEN /\ ~TaskActive(task)
              /\ pc' = "reduce"
              /\ UNCHANGED <<attempts, idx>>
         ELSE /\ attempts' = Append(attempts,
                      [ts |-> images[idx + 1], at |-> "poll", exc |-> exc, vv |-> None])
              /\ idx' = idx + 1
              /\ pc' = AfterImage(exc)
    /\ UNCHANGED <<variant, catalog, store, dates, last, new_dates, images,
                   exported_data, effects, runs, today, window, exports,
                   outcome, watched, task, value, label, procs>>

\* The rest of extract_data: reduceRegion(...).getInfo(), then the record is
\* appended to exported_data. get_sentinel_description raises TypeError for
\* an absent mean; neither run_export nor the loop of __main__ catches it.
SentinelExtractData ==
    /\ pc = "reduce"
    /\ \E o \in PollingOutcomes :
         LET ts == images[idx + 1]
             raisesTypeError ==
                 o.at = "none" /\ get_sentinel_description(o.vv) = "TypeError"
         IN /\ attempts' = Append(attempts, Attempt(ts, o))
            /\ exported_data' = IF o.at = "none" /\ ~raisesTypeError
                                THEN Append(exported_data, SentinelRecord(ts, o.vv))
                                ELSE exported_data
            /\ pc' = IF raisesTypeError THEN "crashed" ELSE AfterImage(o.exc)
    /\ idx' = idx + 1
    /\ UNCHANGED <<variant, catalog, store, dates, last, new_dates, images,
                   effects, runs, today, window, exports, outcome, watched,
                   task, value, label, procs>>

\* bulk_notify_and_hook(timestamps) of main_sentinel.py: as in main.py, on
\* the module-level exported_data. An OSError of the email call is caught by
\* the loop of __main__; a store error is not.
SentinelBulkNotifyAndHook ==
    /\ pc = "notify"
    /\ IF exported_data # <<>>
       THEN \E wh \in WebhookOutcomes, em \in EmailOutcomes,
                 failAt \in 0..Len(exported_data) :
              /\ EmailPropagates(em) => failAt = 0
              /\ effects' = effects \o Downstream(exported_data, wh, em, failAt)
              /\ store' = DownstreamStore(store, exported_data, em, failAt)
              /\ pc' = IF EmailPropagates(em) THEN "caught"
                       ELSE IF failAt # 0 THEN "crashed"
                       ELSE "returned"
       ELSE /\ pc' = "returned"
            /\ UNCHANGED <<effects, store>>
    /\ UNCHANGED <<variant, catalog, dates, last, new_dates, images, idx,
                   exported_data, attempts, runs, today, window, exports,
                   outcome, watched, task, value, label, procs>>

\* The steps of the process itself.
PollingProgram ==
    \/ SentinelRunExport
    \/ SentinelTaskStart
    \/ SentinelTaskPoll
    \/ SentinelExtractData
    \/ SentinelBulkNotifyAndHook

NextPolling ==
    \/ PollingProgram
    \/ TaskEnds

SpecPolling == InitPolling /\ [][NextPolling]_vars

\* The process is scheduled: each enabled step of it is eventually taken.
\* Nothing is assumed of the provider: an export task may stay active.
SpecPollingFair ==
    /\ SpecPolling
    /\ WF_vars(SentinelRunExport)
    /\ WF_vars(SentinelTaskStart)
    /\ WF_vars(SentinelTaskPoll)
    /\ WF_vars(SentinelExtractData)
    /\ WF_vars(SentinelBulkNotifyAndHook)

\* ------------------------------------------------- concurrent runs
\* Two invocations of main.py (each runs main() once) that overlap in time
\* on the same provider and the same store. Each has its own module-level
\* state; the store serialises the transactions of set_last_processed.
Procs == {1, 2}

\* The zonal mean of an image: a property of the image, the same for every
\* run that reduces it.
SmapValueOf(ts) == IF ts % 2 = 0 THEN 3 ELSE 25

\* The state of an invocation before main() is called.
ProcStart ==
    [pc |-> "start", last |-> None, images |-> <<>>, idx |-> 0,
     batch |-> <<>>, exported |-> {}, notified |-> <<>>]

InitConcurrent ==
    /\ Fresh
    /\ variant = "smap"
    /\ catalog \in DistinctSeqs(MaxImages)
    /\ pc = "concurrent"
    /\ task = "none"
    /\ value = None
    /\ label = ""
    /\ procs = [p \in Procs |-> ProcStart]

\* main() of invocation p up to the loop of run_export: the listing, the
\* watermark read, new_dates and the evaluation of the re-query.
ConcMain(p) ==
    /\ procs[p].pc = "start"
    /\ LET image_dates == Smap(catalog, window)
           lastDate == get_last_processed_date(store)
           nd == NewDates(image_dates, lastDate)
           imgs == IF nd = <<>> THEN <<>>
                   ELSE FilterDate(catalog, nd[1], nd[Len(nd)])
       IN procs' = [procs EXCEPT ![p] =
                      [@ EXCEPT !.last = lastDate,
                                !.images = imgs,
                                !.pc = IF nd = <<>> THEN "returned"
                                       ELSE IF imgs = <<>> THEN "notify"
                                       ELSE "extract"]]
    /\ UNCHANGED <<variant, catalog, store, pc, dates, last, new_dates,
                   images, idx, exported_data, effects, attempts, runs,
                   today, window, exports, outcome, watched, task, value,
                   label>>

\* One iteration of the loop of run_export in invocation p: the raster
\* export is started and the record appended, or task.start() raises
\* ee.EEException and the image is skipped.
ConcExtractData(p) ==
    /\ procs[p].pc = "extract"
    /\ \E exc \in {"none", "EEException"} :
         LET me == procs[p]
             ts == me.images[me.idx + 1]
         IN procs' = [procs EXCEPT ![p] =
                        [@ EXCEPT !.idx = me.idx + 1,
                                  !.exported = IF exc = "none"
                                               THEN me.exported \cup {ts}
                                               ELSE me.exported,
                                  !.batch = IF exc = "none"
                                            THEN Append(me.batch, SmapRecord(ts, SmapValueOf(ts)))
                                            ELSE me.batch,
                                  !.pc = IF me.idx + 1 = Len(me.images)
                                         THEN "notify" ELSE "extract"]]
    /\ UNCHANGED <<variant, catalog, store, pc, dates, last, new_dates,
                   images, idx, exported_data, effects, attempts, runs,
                   today, window, exports, outcome, watched, task, value,
                   label>>

\* bulk_notify_and_hook of invocation p: CSV, webhook and email with the
\* batch, then set_last_processed in one transaction, which commits or fails
\* and is rolled back.
ConcBulkNotifyAndHook(p) ==
    /\ procs[p].pc = "notify"
    /\ LET me == procs[p]
       IN IF me.batch # <<>>
          THEN \E failAt \in 0..Len(me.batch) :
                 /\ store' = set_last_processed(store, me.batch, failAt)
                 /\ procs' = [procs EXCEPT ![p] =
                                [@ EXCEPT !.notified = me.batch,
                                          !.pc = IF failAt = 0 THEN "returned"
                                                 ELSE "crashed"]]
          ELSE /\ procs' = [procs EXCEPT ![p] = [@ EXCEPT !.pc = "returned"]]
               /\ UNCHANGED store
    /\ UNCHANGED <<variant, catalog, pc, dates, last, new_dates, images,
                   idx, exported_data, effects, attempts, runs, today,
                   window, exports, outcome, watched, task, value, label>>

NextConcurrent ==
    \E p \in Procs :
        \/ ConcMain(p)
        \/ ConcExtractData(p)
        \/ ConcBulkNotifyAndHook(p)

SpecConcurrent == InitConcurrent /\ [][NextConcurrent]_vars

\* The same program, observed with the record of raster exports.
SpecAudit == InitAudit /\ [][Next]_vars

\* ============================================================== claims
RunEnded == pc \in {"returned", "caught", "crashed"}

\* The last effect of the run is a store commit that succeeded / failed.
CommitOk(effs) ==
    /\ effs # <<>>
    /\ effs[Len(effs)].op = "set_last_processed"
    /\ effs[Len(effs)].ok

CommitFailed(effs) ==
    /\ effs # <<>>
    /\ effs[Len(effs)].op = "set_last_processed"
    /\ ~effs[Len(effs)].ok

LastBatch(effs) == effs[Len(effs)].batch

\* The email call of the run raised: the run's effects end with it.
EmailRaised(effs) ==
    /\ effs # <<>>
    /\ effs[Len(effs)].op = "email"

\* The positions of the events of one operation in the effects of a run.
Positions(effs, op) == {k \in 1..Len(effs) : effs[k].op = op}

SameDayPair(batch) ==
    \E i, j \in 1..Len(batch) :
        i < j /\ batch[i].date = batch[j].date /\ batch[i].vv_dB # batch[j].vv_dB

\* C1: for every watermark w and listing T, new_dates holds exactly the
\* timestamps of T dated strictly after w (all of T when w is absent), in
\* listing order; ties are excluded; nothing is new when w >= the latest date.
C1_NewDatesExact ==
    LET wanted == {t \in Range(dates) : last = None \/ DateOf(t) > last}
    IN /\ Range(new_dates) = wanted
       /\ Len(new_dates) = Cardinality(wanted)
       /\ \A i, j \in 1..Len(new_dates) : i < j =>
            \E a, b \in 1..Len(dates) :
                a < b /\ dates[a] = new_dates[i] /\ dates[b] = new_dates[j]
       /\ \A t \in Range(dates) : DateOf(t) = last => t \notin Range(new_dates)
       /\ (last # None /\ \A t \in Range(dates) : last >= DateOf(t))
            => new_dates = <<>>

\* C1 witness: a run whose watermark ties with a listed image (excluded)
\* while a later image is new.
C1_Witness ==
    /\ last # None
    /\ new_dates # <<>>
    /\ \E t \in Range(dates) : DateOf(t) = last
    /\ C1_NewDatesExact

\* C2: with an ascending listing and every extraction yielding a mean, a run extracts
\* every image dated after the watermark, the latest one included, commits
\* one record per such image and leaves the watermark at the latest new date.
C2_AllNewImagesCommitted ==
    (/\ pc = "returned"
     /\ new_dates # <<>>
     /\ Ascending(dates)
     /\ \A i \in 1..Len(attempts) :
            attempts[i].exc = "none" /\ attempts[i].vv # None)
    => /\ {attempts[i].ts : i \in 1..Len(attempts)} = Range(new_dates)
       /\ CommitOk(effects)
       /\ Len(LastBatch(effects)) = Len(new_dates)
       /\ get_last_processed_date(store) = DateOf(new_dates[Len(new_dates)])

\* C3: the watermark never decreases, and it changes only in a step that
\* commits a non-empty batch through set_last_processed.
C3_WatermarkMonotone ==
    [][LET w == get_last_processed_date(store)
           w2 == get_last_processed_date(store')
       IN /\ w # None => (w2 # None /\ w2 >= w)
          /\ w2 # w => /\ effects' # effects
                       /\ CommitOk(effects')
                       /\ LastBatch(effects') # <<>>]_vars

\* C3 witness: a second run has moved an existing watermark forward.
C3_Witness ==
    /\ last # None
    /\ CommitOk(effects)
    /\ get_last_processed_date(store) > last

\* C4: committing the batch of the last commit a second time leaves the
\* store (date, value and label of every row) as the first commit left it.
C4_CommitIdempotent ==
    CommitOk(effects) =>
        set_last_processed(store, LastBatch(effects), 0) = store

\* C4 witness: a commit of several records that left rows of two dates.
C4_Witness ==
    /\ CommitOk(effects)
    /\ Len(LastBatch(effects)) >= 2
    /\ Len(store) >= 2

\* C5: the store never holds two rows of one date, and after a commit the
\* row of each committed date carries the value and label of the last record
\* of the batch with that date.
C5_OneRowPerDate ==
    /\ \A i, j \in 1..Len(store) : i # j => store[i].date # store[j].date
    /\ CommitOk(effects) =>
         LET batch == LastBatch(effects)
         IN \A k \in 1..Len(batch) :
              LET lastK == SetMax({m \in 1..Len(batch) : batch[m].date = batch[k].date})
              IN \E i \in 1..Len(store) :
                   /\ store[i].date = batch[k].date
                   /\ store[i].vv_dB = batch[lastK].vv_dB
                   /\ store[i].description = batch[lastK].description

\* C5 witness: a committed batch held two records of one date with different
\* values, and the store has one row for that date.
C5_Witness ==
    /\ CommitOk(effects)
    /\ SameDayPair(LastBatch(effects))
    /\ Len(store) = 1

\* C6: a set_last_processed call that fails leaves the store as it was: the
\* rows and the watermark are unchanged and no record of the batch is visible.
C6_CommitAllOrNothing ==
    [][(effects' # effects /\ CommitFailed(effects'))
        => /\ store' = store
           /\ get_last_processed_date(store') = get_last_processed_date(store)
           /\ \A k \in 1..Len(LastBatch(effects')) :
                \A i \in 1..Len(store') :
                    store'[i].date # LastBatch(effects')[k].date]_vars

\* C6 witness: a commit of two records failed at the second one.
C6_Witness ==
    /\ pc = "crashed"
    /\ CommitFailed(effects)
    /\ Len(LastBatch(effects)) >= 2

\* C7: when exactly one of the n new images fails extraction, the other n-1
\* are extracted and committed and the run does not abort.
C7_PartialFailureIsolated ==
    (/\ RunEnded
     /\ Len(new_dates) >= 2
     /\ ~CommitFailed(effects)
     /\ ~EmailRaised(effects)
     /\ Cardinality({i \in 1..Len(attempts) : attempts[i].exc # "none"}) = 1)
    => /\ pc = "returned"
       /\ CommitOk(effects)
       /\ Len(LastBatch(effects)) = Len(new_dates) - 1

\* C8: a run whose new_dates is empty returns at once: no export, no CSV, no
\* webhook, no email, no store write, and the batch is untouched.
C8_NoNewDatesNoEffect ==
    [][(pc = "start" /\ pc' # "start" /\ new_dates' = <<>>)
        => /\ pc' = "returned"
           /\ effects' = <<>>
           /\ attempts' = <<>>
           /\ store' = store
           /\ exported_data' = exported_data]_vars

\* C8 witness: a run found every listed image at or before the watermark.
C8_Witness ==
    /\ pc = "returned"
    /\ dates # <<>>
    /\ last # None
    /\ new_dates = <<>>
    /\ effects = <<>>

\* C9: when new_dates is non-empty but no record was produced, the run
\* writes no CSV, sends no webhook or email and does not call the commit.
C9_EmptyBatchNoEffect ==
    (/\ RunEnded
     /\ new_dates # <<>>
     /\ \A i \in 1..Len(attempts) :
            attempts[i].exc # "none" \/ (variant = "sentinel" /\ attempts[i].vv = None))
    => \A k \in 1..Len(effects) :
            effects[k].op \notin {"csv", "webhook", "email", "set_last_processed"}

\* C10: an image whose zonal mean is absent yields a record with a null
\* value and the label "Unknown", and the run commits that record.
C10_NoDataRecordCommitted ==
    pc = "returned" =>
        \A i \in 1..Len(attempts) :
            (attempts[i].exc = "none" /\ attempts[i].vv = None)
            => /\ CommitOk(effects)
               /\ \E k \in 1..Len(LastBatch(effects)) :
                    LastBatch(effects)[k] = Row(DateOf(attempts[i].ts), None, "Unknown")

\* C11: whenever the webhook POST or the SMTP send of a run fails, the
\* notifier returns normally and the same run still calls set_last_processed
\* with the full, non-empty batch (the batch the CSV and the webhook carried).
C11_NotifierFailureSwallowed ==
    (/\ RunEnded
     /\ \A c \in Positions(effects, "csv") : effects[c].batch # <<>>) =>
        \A k \in Positions(effects, "webhook") \cup Positions(effects, "email") :
            ~effects[k].ok =>
                \E m \in Positions(effects, "set_last_processed") :
                    /\ m > k
                    /\ \A c \in Positions(effects, "csv") :
                           effects[m].batch = effects[c].batch

\* C12: over any sequence of runs, failed and re-run ones included, the
\* results of an image go downstream exactly once; in particular its raster
\* export is never started a second time.
C12_ExportedOnce ==
    \A i, j \in 1..Len(exports) : i # j => exports[i] # exports[j]

\* C13: a run that ends with an exception before or during the store commit
\* leaves the store and the watermark as they were (the store changes only in
\* the step of a commit that succeeds), and the next run, given the same
\* listing, reads the same watermark and computes the same new_dates.
C13_FailedRunRetried ==
    [][/\ store' # store => (pc' = "returned" /\ CommitOk(effects'))
       /\ (/\ pc = "start"
           /\ pc' # "start"
           /\ outcome \in {"crashed", "caught"}
           /\ dates' = dates)
          => /\ get_last_processed_date(store) = last
             /\ last' = last
             /\ new_dates' = new_dates]_vars

\* C13 witness: the run after one that ended with an exception found new
\* dates again and committed them.
C13_Witness ==
    /\ runs = 2
    /\ outcome \in {"crashed", "caught"}
    /\ new_dates # <<>>
    /\ pc = "returned"
    /\ CommitOk(effects)
    /\ LastBatch(effects) # <<>>

\* C14: the run-forever loop of the Sentinel driver never stops on its own:
\* whatever exception a run raises, a store error included, is caught by the
\* loop, so the process never ends with an uncaught exception.
C14_LoopCatchesEverything ==
    variant = "sentinel" => pc # "crashed"

\* C15: every run, later iterations of the loop included, lists the images of
\* the lookback window that ends at the time the run starts, so that an image
\* published between two iterations is listed by the later one.
C15_WindowFollowsClock ==
    [][(pc = "start" /\ pc' # "start")
        => Range(Smap(catalog, Window(today))) \subseteq Range(dates')]_vars

\* C16: in a run that reaches the downstream steps with a non-empty batch,
\* each step happens exactly once and in this order: CSV, one webhook call
\* with every record, one email, the commit of the batch; the commit is the
\* last step of the run and comes after all extraction has finished.
C16_DownstreamOrder ==
    (/\ RunEnded
     /\ \E c \in Positions(effects, "csv") : effects[c].batch # <<>>)
    => LET n == Len(effects)
       IN /\ n >= 4
          /\ effects[n - 3].op = "csv"
          /\ effects[n - 2].op = "webhook"
          /\ effects[n - 1].op = "email"
          /\ effects[n].op = "set_last_processed"
          /\ effects[n - 2].batch = effects[n - 3].batch
          /\ effects[n].batch = effects[n - 3].batch
          /\ \A k \in 1..(n - 4) : effects[k].op = "export"
          /\ idx = Len(images)

\* The dates of the records of a batch.
BatchDates(batch) == {batch[k].date : k \in 1..Len(batch)}

\* The extractions of the run that ended with an exception.
Failed == {i \in 1..Len(attempts) : attempts[i].exc # "none"}

\* C17 as stated: after a run that commits a non-empty batch the watermark is
\* the latest date among the committed records and the dates committed
\* earlier, and it is not the date of an image whose extraction failed.
C17_WatermarkNotAtFailedDate ==
    (CommitOk(effects) /\ LastBatch(effects) # <<>>)
    => LET w == get_last_processed_date(store)
       IN /\ w = SetMax(BatchDates(LastBatch(effects)) \cup ({last} \ {None}))
          /\ \A i \in Failed : w # DateOf(attempts[i].ts)

\* C17 amended: after a run that commits a non-empty batch the watermark is
\* the latest date among the committed records and the dates committed
\* earlier; it is the date of an image whose extraction failed only when
\* another image of that same date was extracted and committed by the run.
C17_WatermarkIsMaxCommitted ==
    (CommitOk(effects) /\ LastBatch(effects) # <<>>)
    => LET w == get_last_processed_date(store)
       IN /\ w = SetMax(BatchDates(LastBatch(effects)) \cup ({last} \ {None}))
          /\ \A i \in Failed :
                w = DateOf(attempts[i].ts) => w \in BatchDates(LastBatch(effects))

\* C17 witness: a commit after an extraction failed, the watermark being the
\* date of another image of the run.
C17_Witness ==
    /\ CommitOk(effects)
    /\ Failed # {}
    /\ \E i \in 1..Len(attempts) :
         /\ i \notin Failed
         /\ DateOf(attempts[i].ts) = get_last_processed_date(store)

\* The new timestamps of the run that yielded a record of the batch.
Extracted ==
    {attempts[i].ts : i \in {j \in 1..Len(attempts) :
        /\ attempts[j].exc = "none"
        /\ (variant = "sentinel" => attempts[j].vv # None)}}

\* C18 as stated: after a run that commits a non-empty batch the watermark is
\* the date of the latest new timestamp of that run, whichever images failed
\* (here: an image of that latest date).
C18_WatermarkIsMaxNewDate ==
    (/\ CommitOk(effects)
     /\ LastBatch(effects) # <<>>
     /\ \E i \in Failed :
          DateOf(attempts[i].ts) = DateOf(SetMax(Range(new_dates))))
    => get_last_processed_date(store) = DateOf(SetMax(Range(new_dates)))

\* C18 amended: after a run that commits a non-empty batch the watermark is
\* the date of a committed record, at most the date of the latest new
\* timestamp, and every new image dated after it failed extraction or was
\* not extracted.
C18_WatermarkAtMostMaxNewDate ==
    (CommitOk(effects) /\ LastBatch(effects) # <<>>)
    => LET w == get_last_processed_date(store)
       IN /\ w \in BatchDates(LastBatch(effects))
          /\ w <= DateOf(SetMax(Range(new_dates)))
          /\ \A t \in Range(new_dates) : DateOf(t) > w => t \notin Extracted

\* C18 witness: a commit left the watermark below the date of a new image
\* whose extraction failed.
C18_Witness ==
    /\ CommitOk(effects)
    /\ \E i \in Failed :
         /\ attempts[i].ts \in Range(new_dates)
         /\ DateOf(attempts[i].ts) > get_last_processed_date(store)

\* C19: an image whose extraction failed is attempted again by the next run
\* only if its date is after the watermark the failing run left; every image
\* a run attempts is dated after the watermark that run read, and the
\* watermark read never decreases from run to run. So once a later-dated
\* record is committed (D1 fails, D2 succeeds), no later run extracts the
\* failed image.
C19_FailedImageBehindWatermark ==
    [][/\ (pc = "start" /\ pc' # "start")
          => \A i \in Failed :
                DateOf(attempts[i].ts) <= get_last_processed_date(store)
                => /\ attempts[i].ts \notin Range(new_dates')
                   /\ last' = get_last_processed_date(store)
       /\ last' # None
          => \A i \in 1..Len(attempts') : DateOf(attempts'[i].ts) > last'
       /\ last # None => (last' # None /\ last' >= last)]_vars

\* C19 witness: the SMAP driver has run a second time on an ascending listing
\* that holds an image dated before the watermark with no row of its date:
\* its extraction failed in the first run, which committed a later date, and
\* the second run did not attempt it.
C19_Witness ==
    /\ variant = "smap"
    /\ runs = 2
    /\ pc = "returned"
    /\ Ascending(dates)
    /\ last # None
    /\ \E t \in Range(dates) :
         /\ DateOf(t) < last
         /\ \A r \in 1..Len(store) : store[r].date # DateOf(t)
         /\ \A i \in 1..Len(attempts) : attempts[i].ts # t

\* C20: in each driver, every record of a committed batch belongs to an
\* image whose raster export was started earlier in the same run.
C20_ExportBeforeRecord ==
    CommitOk(effects) =>
        \A k \in 1..Len(LastBatch(effects)) :
            \E e \in Positions(effects, "export") :
                DateOf(effects[e].ts) = LastBatch(effects)[k].date

\* The table of classes the documentation of both classifiers states:
\* lower bound (inclusive), upper bound (exclusive, inclusive in the last
\* class), number of the class and the words that follow it.
DocumentedTable ==
    <<[lo |-> -25, hi |-> -22, label |-> "1 - Extremely Dry: Hard, cracked soil; drought or bare land"],
      [lo |-> -22, hi |-> -20, label |-> "2 - Very Dry: Dry fields; low water retention"],
      [lo |-> -20, hi |-> -18, label |-> "3 - Dry: Lightly moist topsoil; early stress"],
      [lo |-> -18, hi |-> -16, label |-> "4 - Slightly Moist: Normal soil conditions; vegetated"],
      [lo |-> -16, hi |-> -14, label |-> "5 - Moist: Recently irrigated or after light rain"],
      [lo |-> -14, hi |-> -12, label |-> "6 - Very Moist: Wet surface; saturated or ponding starts"],
      [lo |-> -12, hi |-> -5, label |-> "7 - Saturated / Waterlogged: Standing water, flooded fields, or dense canopy"]>>

\* The classes of the documented table that hold the dB value v.
Hits(v) ==
    {b \in 1..Len(DocumentedTable) :
        /\ DocumentedTable[b].lo <= v
        /\ \/ v < DocumentedTable[b].hi
           \/ b = Len(DocumentedTable) /\ v = DocumentedTable[b].hi}

\* The label the documented table gives the dB value v.
Documented(v) ==
    IF Hits(v) = {} THEN "Unknown moisture class"
    ELSE DocumentedTable[CHOOSE b \in Hits(v) : TRUE].label

\* C21: for every numeric value get_sentinel_description returns one label
\* and does not raise: the seven bins are mutually exclusive, cover [-25, -5]
\* without gaps (the last upper bound included) and give labels 1 to 7 in
\* that order; a value below -25 or above -5 gives "Unknown moisture class".
C21_SentinelClassifierTotal ==
    (variant = "sentinel" /\ label # "" /\ value # None)
    => /\ label # "TypeError"
       /\ Cardinality(Hits(value)) <= 1
       /\ (Hits(value) = {}) <=> (value < -25 \/ value > -5)
       /\ label = Documented(value)

\* C21 witness: the upper bound of the last bin was classified as class 7.
C21_Witness ==
    /\ variant = "sentinel"
    /\ value = -5
    /\ label = DocumentedTable[7].label

\* C22: for an absent value each classifier returns "Unknown" and does not
\* raise.
C22_AbsentValueUnknown ==
    (label # "" /\ value = None) => label = "Unknown"

\* C23: get_description classifies a dB value by the table its documentation
\* states, and gives "Unknown moisture class" outside the table.
C23_DescriptionFollowsDocstring ==
    (variant = "smap" /\ label # "" /\ value # None /\ value % 100 = 0)
    => label = Documented(value \div 100)

\* The label a record of the running driver must carry for its value.
LabelOf(vv) == IF vv = None THEN "Unknown" ELSE Describe(variant, vv)

Labelled(recs) ==
    \A k \in 1..Len(recs) : recs[k].description = LabelOf(recs[k].vv_dB)

\* C24: every record of a run's batch and every row of the store carries the
\* label that the classifier of the running driver gives its own value
\* ("Unknown" for an absent value); a stored value never changes without its
\* label being rewritten.
C24_LabelMatchesValue ==
    /\ Labelled(exported_data)
    /\ Labelled(store)
    /\ \A k \in 1..Len(effects) : Labelled(effects[k].batch)

\* C24 witness: a commit overwrote the row of a date with a record of another
\* value and another label, and the row carries both.
C24_Witness ==
    /\ CommitOk(effects)
    /\ \E i, j \in 1..Len(LastBatch(effects)) :
         LET a == LastBatch(effects)[i]
             b == LastBatch(effects)[j]
         IN /\ i < j
            /\ a.date = b.date
            /\ a.vv_dB # b.vv_dB
            /\ a.description # b.description
            /\ \E r \in 1..Len(store) : store[r] = b

\* C25: whatever the order of the listing, the restricted re-query of a run
\* holds every listed image stamped between the earliest and the latest new
\* date, both included.
C25_RequeryCoversSpan ==
    (/\ pc \in {"extract", "notify", "returned"}
     /\ new_dates # <<>>
     /\ ~Ascending(new_dates))
    => \A t \in Range(catalog) :
          (\E a, b \in Range(new_dates) : a <= t /\ t <= b)
          => t \in Range(images)

\* C27: within one run no two records of the batch carry the same date,
\* whatever the images, several images of one calendar day included.
C27_BatchDatesDistinct ==
    \A i, j \in 1..Len(exported_data) :
        i # j => exported_data[i].date # exported_data[j].date

\* C30: an image dated on the day of the watermark a run read is not new for
\* that run: it is neither in new_dates, nor in the re-query, nor extracted,
\* also when it was published after the run that brought the watermark to
\* that day; the stored watermark is the one read as long as the run has not
\* reached its commit.
C30_WatermarkDayNeverExtracted ==
    /\ last # None =>
         /\ \A t \in Range(new_dates) \cup Range(images) : DateOf(t) # last
         /\ \A i \in 1..Len(attempts) : DateOf(attempts[i].ts) # last
    /\ pc \in {"run_export", "extract", "notify", "export_table"}
         => get_last_processed_date(store) = last

\* C30 witness: the second run listed an image published after the first run
\* had ended, dated on the day of the watermark, and found nothing new.
C30_Witness ==
    /\ runs = 2
    /\ RunEnded
    /\ last # None
    /\ Len(catalog) >= 2
    /\ DateOf(catalog[2]) = last
    /\ catalog[2] \in Range(dates)
    /\ new_dates = <<>>
    /\ store # <<>>

\* The extractions of the current run that appended a record.
Appended == {i \in 1..Len(attempts) : attempts[i].at = "none" /\ attempts[i].vv # None}

AfterTaskOnly ==
    /\ (pc' = "reduce" /\ pc # "reduce") => ~TaskActive(task)
    /\ exported_data' # exported_data => ~TaskActive(task)
    /\ (pc = "extract" /\ pc' # "extract") => ~TaskActive(task)

\* C28: in the polling variant the zonal mean of an image is computed and
\* its record appended only after the export task of that image has left
\* the active state, and the extraction of the next image does not start
\* before then; once the task is inactive the extraction of the image
\* completes.
C28_PollingSequential ==
    /\ [][AfterTaskOnly]_vars
    /\ (pc = "poll" /\ ~TaskActive(task)) ~> (pc \notin {"poll", "reduce"})

\* C29: when two runs are interleaved on the same store, in every reachable
\* state the store holds at most one row per date, and no step lowers the
\* watermark, also when both runs export and notify the same image.
C29_ConcurrentRunsKeepStore ==
    [][/\ \A i, j \in 1..Len(store') : i # j => store'[i].date # store'[j].date
       /\ LET w == get_last_processed_date(store)
              w2 == get_last_processed_date(store')
          IN w # None => (w2 # None /\ w2 >= w)]_vars

\* C29 witness: both runs exported the same image, both notified a record
\* of it and both committed; the store has a row of its date.
C29_Witness ==
    /\ pc = "concurrent"
    /\ \A p \in Procs : procs[p].pc = "returned"
    /\ \E ts \in Range(catalog) :
         /\ \A p \in Procs :
              /\ ts \in procs[p].exported
              /\ \E k \in 1..Len(procs[p].notified) :
                    procs[p].notified[k].date = DateOf(ts)
         /\ \E r \in 1..Len(store) : store[r].date = DateOf(ts)

====
